---- MODULE Spec2Model ----
(***************************************************************************)
(* Model of python/undistorter.py: camera_matrix, undistort and main.      *)
(*                                                                         *)
(* Numbers read from the calibration YAML are exact rationals n/d that     *)
(* remember whether YAML parsed them as int or float; numpy arrays carry   *)
(* their shape and dtype, so that a store of a float into an int64 array   *)
(* truncates as numpy does.  float64 rounding is not modelled.             *)
(* File names are sequences of code points, compared as Python compares    *)
(* strings.  Directories are paths (sequences of names) below a root.      *)
(***************************************************************************)
EXTENDS Integers, Sequences, FiniteSets, TLC

VARIABLES
    pc,                      \* position in main / camera_matrix / undistort
    exitStatus,              \* process exit status, -1 while running
    abortReason,             \* which [Error] message preceded sys.exit()
    yamlFile,                \* environment: the file at args.yaml_file
    inTree,                  \* environment: directory tree at args.inputs_dir
    outPre,                  \* environment: output root as found at start
    outDirs,                 \* directories under args.outputs_dir
    outFiles,                \* files under args.outputs_dir
    calibration_parameters,  \* main: result of yaml.safe_load
    output_scale,            \* main: float(args.scale)
    subfolders_list,         \* main: os.walk result
    mkIdx,                   \* main: position in expected_subfolders_list
    slotIdx,                 \* main: position in subfolders_list
    camera_index,            \* main: CAMERA_INDEX_DICT[subfolder_name]
    camera_model,            \* main: result of camera_matrix
    images_list,             \* main: images_list
    pending,                 \* main: rest of sorted(os.listdir(...))
    image_full_path,         \* main: image_full_path
    undistorted_image,       \* main: result of undistort
    raisedAt,                \* the call that raised into the catch-all
    trace                    \* image I/O performed and warnings printed

vars == <<pc, exitStatus, abortReason, yamlFile, inTree, outPre, outDirs,
          outFiles, calibration_parameters, output_scale, subfolders_list,
          mkIdx, slotIdx, camera_index, camera_model, images_list, pending,
          image_full_path, undistorted_image, raisedAt, trace>>

-----------------------------------------------------------------------------
(* Bounds *)

MaxPng == 2        \* .png files in the largest input folder
MaxScale == 5      \* largest --scale tried on camera_matrix
MaxIndex == 4      \* largest camera_index tried on camera_matrix

-----------------------------------------------------------------------------
(* Numbers and numpy arrays *)

Num(n, d, isInt) == [n |-> n, d |-> d, int |-> isInt]

NumEq(a, b) == a.n * b.d = b.n * a.d

TruncDiv(n, d) == IF n >= 0 THEN n \div d ELSE -((-n) \div d)

\* value / float(output_scale): true division, the result is a float
DivFloat(a, s) == Num(a.n, a.d * s, FALSE)

\* dtype numpy infers for an array built from these Python numbers
InferDtype(elems) ==
    IF \A i \in 1..Len(elems) : elems[i].int THEN "int64" ELSE "float64"

\* the value an array of this dtype holds after being assigned v
Store(dtype, v) ==
    IF dtype = "int64" THEN Num(TruncDiv(v.n, v.d), 1, TRUE)
    ELSE Num(v.n, v.d, FALSE)

NpArray(shape, elems) ==
    LET dt == InferDtype(elems)
    IN [shape |-> shape, dtype |-> dt,
        data |-> [i \in 1..Len(elems) |-> Store(dt, elems[i])]]

\* arr[r][c] = v on a 3x3 array stored row-major (r, c from 0)
SetItem(arr, r, c, v) ==
    [arr EXCEPT !.data[3 * r + c + 1] = Store(arr.dtype, v)]

GetItem(arr, r, c) == arr.data[3 * r + c + 1]

-----------------------------------------------------------------------------
(* camera_matrix *)

CAMERA_INDEX_DICT == [front |-> 0, left |-> 1, rear |-> 2, right |-> 3]

\* A calibration document: hasPath says whether ["ncameras"][0]["cameras"]
\* resolves; cameras is that list.  A camera entry: hasKeys says whether
\* "camera", "intrinsics"/"data" and "distortion"/"parameters"/"data" all
\* resolve; intr and dist are the two data lists.

\* camera_model["intrinsics"]["data"][i] raises IndexError
IntrIndexError(cm) == Len(cm.intr) < 5

\* np.asarray(data)[:, np.newaxis] on a flat list of n numbers is n x 1
DistColumn(dist) ==
    [shape |-> <<Len(dist), 1>>, dtype |-> InferDtype(dist), data |-> dist]

XiArray(v) == [shape |-> <<>>, dtype |-> InferDtype(<<v>>), data |-> <<v>>]

camera_matrix(calibration_dict, index, scale) ==
    IF \/ ~calibration_dict.hasPath
       \/ index + 1 > Len(calibration_dict.cameras)
    THEN <<>>
    ELSE LET cm == calibration_dict.cameras[index + 1] IN
         IF ~cm.hasKeys \/ IntrIndexError(cm)
         THEN <<>>
         ELSE LET i == cm.intr
                  Zero == Num(0, 1, TRUE)
                  One == Num(1, 1, TRUE)
                  K == NpArray(<<3, 3>>, <<i[2], Zero, i[4],
                                           Zero, i[3], i[5],
                                           Zero, Zero, One>>)
                  K1 == SetItem(K, 0, 0, DivFloat(GetItem(K, 0, 0), scale))
                  K_scaled == SetItem(K1, 1, 1,
                                      DivFloat(GetItem(K1, 1, 1), scale))
                  D == DistColumn(cm.dist)
                  xi == XiArray(i[1])
              IN <<K, D, xi, K_scaled>>

-----------------------------------------------------------------------------
(* undistort: the checks that precede cv2.imread *)

WrongTotalSize(model) == Len(model) # 4

\* the shape test without its D.shape != (4,1) term
ShapesOkNoD(model) ==
    /\ model[1].shape = <<3, 3>>
    /\ model[3].shape = <<>>
    /\ model[4].shape = <<3, 3>>

ShapesOk(model) ==
    /\ model[1].shape = <<3, 3>>
    /\ model[2].shape = <<4, 1>>
    /\ model[3].shape = <<>>
    /\ model[4].shape = <<3, 3>>

-----------------------------------------------------------------------------
(* File names and directory trees *)

DotPng == <<46, 112, 110, 103>>                   \* ".png"

PngName(i) == <<96 + i>> \o DotPng                \* "a.png", "b.png", ...

LongPngName == <<97, 97>> \o DotPng               \* "aa.png"

TxtName == <<97, 46, 116, 120, 116>>              \* "a.txt"

NoDotName == <<97, 112, 110, 103>>                \* "apng"

\* str.endswith
EndsWith(s, suffix) ==
    /\ Len(s) >= Len(suffix)
    /\ SubSeq(s, Len(s) - Len(suffix) + 1, Len(s)) = suffix

\* Python's < on strings: first differing code point, a prefix is smaller
RECURSIVE StrLess(_, _)
StrLess(a, b) ==
    IF b = <<>> THEN FALSE
    ELSE IF a = <<>> THEN TRUE
    ELSE IF Head(a) # Head(b) THEN Head(a) < Head(b)
    ELSE StrLess(Tail(a), Tail(b))

\* sorted(os.listdir(...)) for a directory holding the names in S
RECURSIVE Sorted(_)
Sorted(S) ==
    IF S = {} THEN <<>>
    ELSE LET m == CHOOSE x \in S : \A y \in S \ {x} : StrLess(x, y)
         IN <<m>> \o Sorted(S \ {m})

Last(s) == s[Len(s)]

\* os.path.basename of a directory below the root
Basename(path) == Last(path)

IsPrefix(p, q) == Len(p) <= Len(q) /\ SubSeq(q, 1, Len(p)) = p

\* os.walk(top): top first, then every directory below it, each directory
\* before its descendants and each subtree contiguous; sibling order is
\* whatever the file system gives.  Nothing when top does not exist.
IsWalk(dirs, w) ==
    /\ Len(w) = Cardinality(dirs)
    /\ {w[i] : i \in 1..Len(w)} = dirs
    /\ \A i \in 1..Len(w) :
         LET below == {j \in 1..Len(w) : IsPrefix(w[i], w[j])}
         IN below = i..(i + Cardinality(below) - 1)

RECURSIVE SeqsOver(_, _)
SeqsOver(S, n) ==
    IF n = 0 THEN {<<>>}
    ELSE {Append(s, x) : s \in SeqsOver(S, n - 1), x \in S}

OsWalk(dirs) == {w \in SeqsOver(dirs, Cardinality(dirs)) : IsWalk(dirs, w)}

expected_subfolders_list == <<"front", "left", "rear", "right">>

\* Counter(a) != Counter(b) on two lists of names
RECURSIVE Count(_, _)
Count(s, x) ==
    IF s = <<>> THEN 0
    ELSE (IF Head(s) = x THEN 1 ELSE 0) + Count(Tail(s), x)

CounterEq(a, b) ==
    \A x \in {a[i] : i \in 1..Len(a)} \cup {b[i] : i \in 1..Len(b)} :
        Count(a, x) = Count(b, x)

\* an os.mkdir that accepts an existing directory (exist_ok behaviour)
MkdirFailsNever(dirs, p) == FALSE

\* os.mkdir raises OSError when the directory is already there
MkdirFails(dirs, p) == p \in dirs

-----------------------------------------------------------------------------
(* Environments *)

GoodIntr == <<Num(12, 10, FALSE), Num(8005, 10, FALSE), Num(8005, 10, FALSE),
              Num(640, 1, TRUE), Num(360, 1, TRUE)>>

DistOfLen(n) == [i \in 1..n |-> Num(i, 100, FALSE)]

GoodCam == [hasKeys |-> TRUE, intr |-> GoodIntr, dist |-> DistOfLen(4)]

NoPathDoc == [hasPath |-> FALSE, cameras |-> <<>>]

DocOf(cams) == [hasPath |-> TRUE, cameras |-> cams]

DocGood == DocOf(<<GoodCam, GoodCam, GoodCam, GoodCam>>)

MainDocs ==
    { DocGood,
      NoPathDoc,
      DocOf(<<GoodCam, GoodCam, GoodCam>>),
      DocOf(<<[GoodCam EXCEPT !.dist = DistOfLen(3)], GoodCam, GoodCam,
              GoodCam>>),
      DocOf(<<GoodCam, GoodCam, [GoodCam EXCEPT !.hasKeys = FALSE],
              GoodCam>>),
      DocOf(<<GoodCam, GoodCam, GoodCam,
              [GoodCam EXCEPT !.intr = SubSeq(GoodIntr, 1, 4)]>>) }

YamlFiles ==
    {[exists |-> FALSE, parses |-> FALSE, doc |-> NoPathDoc],
     [exists |-> TRUE, parses |-> FALSE, doc |-> NoPathDoc]}
    \cup {[exists |-> TRUE, parses |-> TRUE, doc |-> d] : d \in MainDocs}

BigFolder == {PngName(i) : i \in 1..MaxPng} \cup {LongPngName, TxtName}

SmallFolder == {PngName(1), NoDotName}

Root == <<>>

\* a tree: its directories and the plain files of each
TreeOf(dirs, front, left) ==
    [dirs |-> dirs,
     files |-> [d \in dirs |-> IF d = front THEN BigFolder
                               ELSE IF d = left THEN SmallFolder
                               ELSE {}]]

FourDirs == {Root, <<"front">>, <<"left">>, <<"rear">>, <<"right">>}

InputTrees ==
    { TreeOf({}, <<"front">>, <<"left">>),
      TreeOf(FourDirs, <<"front">>, <<"left">>),
      TreeOf(FourDirs, <<"right">>, <<"rear">>),
      TreeOf(FourDirs \ {<<"right">>}, <<"front">>, <<"left">>),
      TreeOf((FourDirs \ {<<"right">>}) \cup {<<"rear", "right">>},
             <<"front">>, <<"rear", "right">>),
      TreeOf(FourDirs \cup {<<"front", "raw">>}, <<"front">>, <<"left">>),
      TreeOf(FourDirs \cup {<<"misc">>}, <<"front">>, <<"left">>),
      TreeOf((FourDirs \ {<<"rear">>}) \cup {<<"back">>},
             <<"front">>, <<"left">>) }

OutFile(dir, file, content) ==
    [dir |-> dir, file |-> file, content |-> content]

OutStates ==
    { [dirs |-> {}, files |-> {}],
      [dirs |-> {Root}, files |-> {}],
      [dirs |-> {Root, <<"front">>},
       files |-> {OutFile("front", PngName(1), "old")}],
      [dirs |-> {Root, <<"right">>}, files |-> {}] }

DefaultScale == 5

NoPath == <<Root, <<>>>>

NoRaise == [call |-> "none", path |-> NoPath]

Event(op, src, cam, dest) == [op |-> op, src |-> src, cam |-> cam, dest |-> dest]

NoDest == <<"", <<>>>>

Idle ==
    /\ exitStatus = -1
    /\ abortReason = "none"
    /\ subfolders_list = <<>>
    /\ mkIdx = 1
    /\ slotIdx = 1
    /\ images_list = <<>>
    /\ pending = <<>>
    /\ undistorted_image = "unset"
    /\ raisedAt = NoRaise
    /\ trace = <<>>

Init ==
    /\ pc = "start"
    /\ yamlFile \in YamlFiles
    /\ inTree \in InputTrees
    /\ outPre \in OutStates
    /\ outDirs = outPre.dirs
    /\ outFiles = outPre.files
    /\ output_scale = DefaultScale
    /\ calibration_parameters = NoPathDoc
    /\ camera_index = -1
    /\ camera_model = <<>>
    /\ image_full_path = NoPath
    /\ Idle

env == <<yamlFile, inTree, outPre>>

\* sys.exit() after an [Error] message: no argument, so the status is 0
SysExit(reason) ==
    /\ pc' = "exited"
    /\ exitStatus' = 0
    /\ abortReason' = reason

Running == UNCHANGED <<exitStatus, abortReason>>

-----------------------------------------------------------------------------
(* main *)

\* "Check yaml file exist and validate the format"
CheckYaml ==
    /\ pc = "start"
    /\ IF ~yamlFile.exists THEN
           /\ SysExit("yaml_not_found")
           /\ UNCHANGED calibration_parameters
       ELSE IF ~yamlFile.parses THEN
           /\ SysExit("yaml_unvalidated")
           /\ UNCHANGED calibration_parameters
       ELSE
           /\ calibration_parameters' = yamlFile.doc
           /\ pc' = "walk"
           /\ Running
    /\ UNCHANGED <<env, outDirs, outFiles, output_scale, subfolders_list,
                   mkIdx, slotIdx, camera_index, camera_model, images_list,
                   pending, image_full_path, undistorted_image, raisedAt,
                   trace>>

\* "Check the inputs folder and its sub-folders"
CheckInputs ==
    /\ pc = "walk"
    /\ \E w \in OsWalk(inTree.dirs) :
         IF Len(w) = 0 THEN
             /\ SysExit("inputs_not_exist")
             /\ subfolders_list' = w
         ELSE IF Len(w) # Len(expected_subfolders_list) + 1 THEN
             /\ SysExit("inputs_count")
             /\ subfolders_list' = w
         ELSE
             /\ subfolders_list' = Tail(w)
             /\ IF ~CounterEq([i \in 1..Len(w) - 1 |-> Basename(w[i + 1])],
                              expected_subfolders_list)
                THEN SysExit("inputs_names")
                ELSE pc' = "mkroot" /\ Running
    /\ UNCHANGED <<env, outDirs, outFiles, calibration_parameters,
                   output_scale, mkIdx, slotIdx, camera_index, camera_model,
                   images_list, pending, image_full_path, undistorted_image,
                   raisedAt, trace>>

\* os.mkdir(args.outputs_dir), an existing root is only warned about
MakeOutputRoot ==
    /\ pc = "mkroot"
    /\ outDirs' = outDirs \cup {Root}
    /\ pc' = "mksub"
    /\ Running
    /\ UNCHANGED <<env, outFiles, calibration_parameters, output_scale,
                   subfolders_list, mkIdx, slotIdx, camera_index,
                   camera_model, images_list, pending, image_full_path,
                   undistorted_image, raisedAt, trace>>

\* one pass of "for sub_name in expected_subfolders_list"
MakeOutputSubfolder ==
    /\ pc = "mksub"
    /\ LET p == <<expected_subfolders_list[mkIdx]>> IN
       IF MkdirFails(outDirs, p) THEN
           /\ SysExit("output_exists")
           /\ UNCHANGED <<outDirs, mkIdx>>
       ELSE
           /\ outDirs' = outDirs \cup {p}
           /\ mkIdx' = mkIdx + 1
           /\ pc' = IF mkIdx = Len(expected_subfolders_list)
                    THEN "slot" ELSE "mksub"
           /\ Running
    /\ UNCHANGED <<env, outFiles, calibration_parameters, output_scale,
                   subfolders_list, slotIdx, camera_index, camera_model,
                   images_list, pending, image_full_path, undistorted_image,
                   raisedAt, trace>>

subfolder_directory == subfolders_list[slotIdx]

subfolder_name == Basename(subfolder_directory)

\* head of "for subfolder_directory in subfolders_list", or the end of main
BeginSlot ==
    /\ pc = "slot"
    /\ IF slotIdx > Len(subfolders_list) THEN
           /\ pc' = "finished"
           /\ exitStatus' = 0
           /\ UNCHANGED <<abortReason, camera_index, camera_model,
                          images_list>>
       ELSE
           LET index == CAMERA_INDEX_DICT[subfolder_name]
               model == camera_matrix(calibration_parameters, index,
                                      output_scale)
           IN /\ camera_index' = index
              /\ camera_model' = model
              /\ IF Len(model) # 4 THEN
                     /\ SysExit("camera_model")
                     /\ UNCHANGED images_list
                 ELSE
                     /\ images_list' = <<>>
                     /\ pc' = "listdir"
                     /\ Running
    /\ UNCHANGED <<env, outDirs, outFiles, calibration_parameters,
                   output_scale, subfolders_list, mkIdx, slotIdx, pending,
                   image_full_path, undistorted_image, raisedAt, trace>>

\* sorted(os.listdir(subfolder_directory)); the directory may have become
\* unreadable since os.walk saw it
ListFolder ==
    /\ pc = "listdir"
    /\ \/ /\ pending' = Sorted(inTree.files[subfolder_directory])
          /\ pc' = "file"
          /\ UNCHANGED raisedAt
       \/ /\ raisedAt' = [call |-> "listdir", path |-> NoPath]
          /\ pc' = "handler"
          /\ UNCHANGED pending
    /\ Running
    /\ UNCHANGED <<env, outDirs, outFiles, calibration_parameters,
                   output_scale, subfolders_list, mkIdx, slotIdx,
                   camera_index, camera_model, images_list, image_full_path,
                   undistorted_image, trace>>

\* one pass of "for file in sorted(...)" up to the call of undistort
NextFile ==
    /\ pc = "file"
    /\ IF pending = <<>> THEN
           /\ slotIdx' = slotIdx + 1
           /\ pc' = "slot"
           /\ UNCHANGED <<pending, image_full_path, images_list, trace>>
       ELSE IF ~EndsWith(Head(pending), DotPng) THEN
           /\ pending' = Tail(pending)
           /\ pc' = "file"
           /\ UNCHANGED <<slotIdx, image_full_path, images_list, trace>>
       ELSE
           LET path == <<subfolder_directory, Head(pending)>> IN
           /\ image_full_path' = path
           /\ images_list' = Append(images_list, path)
           /\ trace' = Append(trace,
                          Event("undistort", path, camera_index, NoDest))
           /\ pc' = "und_check"
           /\ UNCHANGED <<slotIdx, pending>>
    /\ Running
    /\ UNCHANGED <<env, outDirs, outFiles, calibration_parameters,
                   output_scale, subfolders_list, mkIdx, camera_index,
                   camera_model, undistorted_image, raisedAt>>

\* undistort: "Check calibration parameters"
UndistortCheck ==
    /\ pc = "und_check"
    /\ IF WrongTotalSize(camera_model) THEN
           undistorted_image' = "None" /\ pc' = "returned"
       ELSE IF ~ShapesOk(camera_model) THEN
           undistorted_image' = "None" /\ pc' = "returned"
       ELSE
           undistorted_image' = "unset" /\ pc' = "und_imread"
    /\ Running
    /\ UNCHANGED <<env, outDirs, outFiles, calibration_parameters,
                   output_scale, subfolders_list, mkIdx, slotIdx,
                   camera_index, camera_model, images_list, pending,
                   image_full_path, raisedAt, trace>>

\* undistort: "Read in image"; cv2.imread gives None for what it cannot
\* decode
UndistortImread ==
    /\ pc = "und_imread"
    /\ trace' = Append(trace,
                       Event("imread", image_full_path, camera_index, NoDest))
    /\ \/ undistorted_image' = "None" /\ pc' = "returned"
       \/ undistorted_image' = "unset" /\ pc' = "und_remap"
    /\ Running
    /\ UNCHANGED <<env, outDirs, outFiles, calibration_parameters,
                   output_scale, subfolders_list, mkIdx, slotIdx,
                   camera_index, camera_model, images_list, pending,
                   image_full_path, raisedAt>>

\* undistort: "Perform calibration"; the two cv2 calls may raise cv2.error
UndistortRemap ==
    /\ pc = "und_remap"
    /\ trace' = Append(trace,
                       Event("remap", image_full_path, camera_index, NoDest))
    /\ \/ /\ undistorted_image' = "image"
          /\ pc' = "returned"
          /\ UNCHANGED raisedAt
       \/ /\ raisedAt' = [call |-> "undistort", path |-> image_full_path]
          /\ pc' = "handler"
          /\ UNCHANGED undistorted_image
    /\ Running
    /\ UNCHANGED <<env, outDirs, outFiles, calibration_parameters,
                   output_scale, subfolders_list, mkIdx, slotIdx,
                   camera_index, camera_model, images_list, pending,
                   image_full_path>>

\* the rest of the loop body: the warning, or cv2.imwrite and its result
AfterUndistort ==
    /\ pc = "returned"
    /\ LET file == image_full_path[2]
           dest == <<subfolder_name, file>>
       IN IF undistorted_image = "None" THEN
              /\ trace' = Append(trace, Event("warn_pass", image_full_path,
                                              camera_index, NoDest))
              /\ pending' = Tail(pending)
              /\ pc' = "file"
              /\ UNCHANGED <<outFiles, raisedAt>>
          ELSE
              \/ /\ outFiles' =
                        {f \in outFiles : <<f.dir, f.file>> # dest}
                        \cup {OutFile(dest[1], dest[2], "new")}
                 /\ trace' = Append(trace, Event("imwrite", image_full_path,
                                                 camera_index, dest))
                 /\ pending' = Tail(pending)
                 /\ pc' = "file"
                 /\ UNCHANGED raisedAt
              \/ /\ trace' = Append(trace, Event("warn_save", image_full_path,
                                                 camera_index, dest))
                 /\ pending' = Tail(pending)
                 /\ pc' = "file"
                 /\ UNCHANGED <<outFiles, raisedAt>>
              \/ /\ raisedAt' = [call |-> "imwrite", path |-> image_full_path]
                 /\ pc' = "handler"
                 /\ UNCHANGED <<outFiles, pending, trace>>
    /\ Running
    /\ UNCHANGED <<env, outDirs, calibration_parameters, output_scale,
                   subfolders_list, mkIdx, slotIdx, camera_index,
                   camera_model, images_list, image_full_path,
                   undistorted_image>>

\* the bare "except:" around the file loop
Handler ==
    /\ pc = "handler"
    /\ IF images_list = <<>> THEN
           \* images_list[-1] raises IndexError, nothing catches it
           /\ pc' = "crashed"
           /\ exitStatus' = 1
           /\ UNCHANGED <<abortReason, slotIdx, trace>>
       ELSE
           /\ trace' = Append(trace, Event("warn_failure", Last(images_list),
                                           camera_index, NoDest))
           /\ slotIdx' = slotIdx + 1
           /\ pc' = "slot"
           /\ Running
    /\ UNCHANGED <<env, outDirs, outFiles, calibration_parameters,
                   output_scale, subfolders_list, mkIdx, camera_index,
                   camera_model, images_list, pending, image_full_path,
                   undistorted_image, raisedAt>>

Next ==
    \/ CheckYaml
    \/ CheckInputs
    \/ MakeOutputRoot
    \/ MakeOutputSubfolder
    \/ BeginSlot
    \/ ListFolder
    \/ NextFile
    \/ UndistortCheck
    \/ UndistortImread
    \/ UndistortRemap
    \/ AfterUndistort
    \/ Handler

Spec == Init /\ [][Next]_vars

-----------------------------------------------------------------------------
(* camera_matrix called on its own, over bounded documents *)

IntrLists ==
    { <<Num(12, 10, FALSE), fx, fy, cx, Num(360, 1, TRUE)>> :
        fx \in {Num(800, 1, TRUE), Num(801, 1, TRUE), Num(1603, 2, FALSE)},
        fy \in {Num(800, 1, TRUE), Num(803, 1, TRUE), Num(1603, 2, FALSE)},
        cx \in {Num(640, 1, TRUE), Num(1281, 2, FALSE)} }
    \cup {SubSeq(GoodIntr, 1, 4), Append(GoodIntr, Num(0, 1, TRUE))}

DistLists == {DistOfLen(n) : n \in {0, 3, 4, 5}}

CamEntries ==
    [hasKeys : BOOLEAN, intr : IntrLists, dist : DistLists]

CamDocs ==
    {NoPathDoc}
    \cup {DocOf([i \in 1..k |-> e]) : k \in 0..MaxIndex, e \in CamEntries}

NoEnv ==
    /\ yamlFile = [exists |-> FALSE, parses |-> FALSE, doc |-> NoPathDoc]
    /\ inTree = TreeOf({}, <<"front">>, <<"left">>)
    /\ outPre = [dirs |-> {}, files |-> {}]

InitCam ==
    /\ pc = "cm_call"
    /\ NoEnv
    /\ outDirs = {}
    /\ outFiles = {}
    /\ Idle
    /\ calibration_parameters \in CamDocs
    /\ camera_index \in 0..MaxIndex
    /\ output_scale \in 1..MaxScale
    /\ camera_model = <<>>
    /\ image_full_path = NoPath

\* camera_model = camera_matrix(calibration_parameters, camera_index, scale)
CameraMatrixCall ==
    /\ pc = "cm_call"
    /\ camera_model' = camera_matrix(calibration_parameters, camera_index,
                                     output_scale)
    /\ pc' = "cm_done"
    /\ Running
    /\ UNCHANGED <<env, outDirs, outFiles, calibration_parameters,
                   output_scale, subfolders_list, mkIdx, slotIdx,
                   camera_index, images_list, pending, image_full_path,
                   undistorted_image, raisedAt, trace>>

NextCam == CameraMatrixCall

SpecCam == InitCam /\ [][NextCam]_vars

-----------------------------------------------------------------------------
(* undistort called on arbitrary records, with the caller's code after it *)

MaxModelLen == 5   \* longest calibration list handed to undistort

Shapes == {<<3, 3>>, <<4, 1>>, <<>>, <<4>>, <<3, 1>>}

ArrayOfShape(sh) == [shape |-> sh, dtype |-> "float64", data |-> <<>>]

UndModels ==
    UNION {SeqsOver({ArrayOfShape(sh) : sh \in Shapes}, n) :
             n \in 0..MaxModelLen}

InitUnd ==
    /\ pc = "und_check"
    /\ NoEnv
    /\ outDirs = FourDirs
    /\ outFiles = {}
    /\ exitStatus = -1
    /\ abortReason = "none"
    /\ calibration_parameters = NoPathDoc
    /\ output_scale = DefaultScale
    /\ subfolders_list = <<<<"front">>>>
    /\ mkIdx = Len(expected_subfolders_list) + 1
    /\ slotIdx = 1
    /\ camera_index = CAMERA_INDEX_DICT["front"]
    /\ camera_model \in UndModels
    /\ image_full_path = <<<<"front">>, PngName(1)>>
    /\ images_list = <<image_full_path>>
    /\ pending = <<PngName(1)>>
    /\ undistorted_image = "unset"
    /\ raisedAt = NoRaise
    /\ trace = <<Event("undistort", image_full_path, camera_index, NoDest)>>

NextUnd ==
    \/ UndistortCheck
    \/ UndistortImread
    \/ UndistortRemap
    \/ AfterUndistort

SpecUnd == InitUnd /\ [][NextUnd]_vars


-----------------------------------------------------------------------------
(* Properties *)

ImageIO == {"imread", "remap", "imwrite"}

Warnings == {"warn_pass", "warn_save", "warn_failure"}

NoImageIO == \A i \in 1..Len(trace) : trace[i].op \notin ImageIO

Attempts(path) ==
    {i \in 1..Len(trace) : trace[i].op = "undistort" /\ trace[i].src = path}

PngsOf(d) == {f \in inTree.files[d] : EndsWith(f, DotPng)}

SlotPosition(d) == CHOOSE i \in 1..Len(subfolders_list) : subfolders_list[i] = d

\* C1: a run that aborts on the calibration record of a camera slot has
\* read, rectified and written no image before the abort.
C1_CalibrationAbortBeforeImageIO ==
    (pc = "exited" /\ abortReason = "camera_model") => NoImageIO

\* C2: in a run that reaches the end, after every warned failure of a file
\* the .png files sorting after it in its folder, and the .png files of the
\* folders visited later, have been handed to undistort.
C2_FailureKeepsSiblings ==
    pc = "finished" =>
        \A i \in 1..Len(trace) :
            trace[i].op \in Warnings =>
                LET d == trace[i].src[1]
                    f == trace[i].src[2]
                IN /\ \A g \in PngsOf(d) :
                        StrLess(f, g) => Attempts(<<d, g>>) # {}
                   /\ \A j \in 1..Len(subfolders_list) :
                        j > SlotPosition(d) =>
                            \A g \in PngsOf(subfolders_list[j]) :
                                Attempts(<<subfolders_list[j], g>>) # {}

Malformed(doc, index) ==
    \/ ~doc.hasPath
    \/ Len(doc.cameras) < index + 1
    \/ ~doc.cameras[index + 1].hasKeys
    \/ Len(doc.cameras[index + 1].intr) < 5
    \/ Len(doc.cameras[index + 1].dist) # 4

\* C3: camera_matrix returns the empty list exactly when the camera list is
\* too short, a key is missing, the intrinsics have fewer than 5 elements
\* or the distortion data does not have 4 elements, and a 4-element record
\* otherwise.
C3_NoRecordWhenMalformed ==
    pc = "cm_done" =>
        /\ (camera_model = <<>>) <=> Malformed(calibration_parameters,
                                               camera_index)
        /\ camera_model # <<>> => Len(camera_model) = 4

\* C4: for a well-formed record K holds fx, fy, cx, cy as given, K_scaled
\* holds fx/scale and fy/scale exactly and agrees with K everywhere else,
\* and K_scaled equals K when the scale is 1.
C4_ScaledFocalExact ==
    (pc = "cm_done" /\ ~Malformed(calibration_parameters, camera_index)) =>
        LET i == calibration_parameters.cameras[camera_index + 1].intr
            K == camera_model[1]
            Ks == camera_model[4]
            Others == ((0..2) \X (0..2)) \ {<<0, 0>>, <<1, 1>>}
        IN /\ NumEq(GetItem(K, 0, 0), i[2])
           /\ NumEq(GetItem(K, 1, 1), i[3])
           /\ NumEq(GetItem(K, 0, 2), i[4])
           /\ NumEq(GetItem(K, 1, 2), i[5])
           /\ NumEq(GetItem(K, 2, 2), Num(1, 1, TRUE))
           /\ \A rc \in {<<0, 1>>, <<1, 0>>, <<2, 0>>, <<2, 1>>} :
                GetItem(K, rc[1], rc[2]).n = 0
           /\ NumEq(GetItem(Ks, 0, 0), DivFloat(i[2], output_scale))
           /\ NumEq(GetItem(Ks, 1, 1), DivFloat(i[3], output_scale))
           /\ \A rc \in Others :
                NumEq(GetItem(Ks, rc[1], rc[2]), GetItem(K, rc[1], rc[2]))
           /\ output_scale = 1 =>
                \A rc \in (0..2) \X (0..2) :
                    NumEq(GetItem(Ks, rc[1], rc[2]), GetItem(K, rc[1], rc[2]))

ImmediateSubdirs == {d[1] : d \in {e \in inTree.dirs : Len(e) = 1}}

ExpectedNames ==
    {expected_subfolders_list[i] : i \in 1..Len(expected_subfolders_list)}

LayoutDecided ==
    /\ pc \notin {"start", "walk"}
    /\ abortReason \notin {"yaml_not_found", "yaml_unvalidated"}

LayoutRejected ==
    abortReason \in {"inputs_not_exist", "inputs_count", "inputs_names"}

\* C5: the input-layout check passes exactly when the immediate
\* subdirectories of the input root are front, left, rear and right, and
\* without an immediate right/ nothing is created or written under the
\* output root.
C5_LayoutCheckImmediateOnly ==
    LayoutDecided =>
        /\ ~LayoutRejected <=> (ImmediateSubdirs = ExpectedNames)
        /\ "right" \notin ImmediateSubdirs =>
              /\ outFiles = outPre.files
              /\ \A n \in ExpectedNames :
                    <<n>> \in outDirs => <<n>> \in outPre.dirs

PreExistingSubfolder == \E n \in ExpectedNames : <<n>> \in outPre.dirs

\* C6: when an output subfolder exists at the start no image is read or
\* written and the files under the output root stay as they were; the
\* run stops on the output check only when a subfolder pre-existed.
C6_ExistingOutputSubfolderAborts ==
    /\ PreExistingSubfolder =>
          /\ NoImageIO
          /\ outFiles = outPre.files
          /\ pc \in {"start", "walk", "mkroot", "mksub", "exited"}
    /\ abortReason = "output_exists" => PreExistingSubfolder

W6_AbortedOnExistingSubfolder ==
    /\ pc = "exited"
    /\ abortReason = "output_exists"
    /\ outPre.files # {}
    /\ \E d \in inTree.dirs : PngsOf(d) # {}

\* C7: a run stopped by a fatal error ends with a non-zero exit status and
\* a run that attempted all images ends with status zero.
C7_AbortStatusNonZero ==
    /\ pc = "exited" => exitStatus # 0
    /\ pc = "finished" => exitStatus = 0

BadRecord(model) ==
    \/ Len(model) # 4
    \/ model[1].shape # <<3, 3>>
    \/ model[2].shape # <<4, 1>>
    \/ model[3].shape # <<>>
    \/ model[4].shape # <<3, 3>>

\* C8: with a record that is not 4 elements of shapes 3x3, 4x1, scalar and
\* 3x3, undistort returns None without reading the image or reaching the
\* map and remap calls, and the caller writes no output file.
C8_ValidationBeforeImread ==
    BadRecord(camera_model) =>
        /\ NoImageIO
        /\ pc \notin {"und_imread", "und_remap", "handler"}
        /\ pc \in {"returned", "file"} => undistorted_image = "None"
        /\ outFiles = {}

W8_RejectedWithoutRead ==
    /\ pc = "file"
    /\ Len(camera_model) = 4
    /\ camera_model[1].shape = <<3, 3>>
    /\ camera_model[2].shape = <<3, 1>>
    /\ undistorted_image = "None"
    /\ trace[Len(trace)].op = "warn_pass"

\* C9: in a run that reaches the end every .png of every slot folder was
\* handed to undistort exactly once, in sorted order within its folder,
\* with the camera index of the folder's name, a written image went to
\* <slot name>/<same file name>, and other files caused no event.
C9_EachSourceOnce ==
    pc = "finished" =>
        /\ \A k \in 1..Len(subfolders_list) :
              LET d == subfolders_list[k] IN
              \A f \in inTree.files[d] :
                  IF EndsWith(f, DotPng)
                  THEN Cardinality(Attempts(<<d, f>>)) = 1
                  ELSE \A i \in 1..Len(trace) : trace[i].src # <<d, f>>
        /\ \A i \in 1..Len(trace) :
              /\ trace[i].cam = CAMERA_INDEX_DICT[Basename(trace[i].src[1])]
              /\ trace[i].op = "imwrite" =>
                    trace[i].dest = <<Basename(trace[i].src[1]),
                                      trace[i].src[2]>>
        /\ \A i, j \in 1..Len(trace) :
              (/\ i < j
               /\ trace[i].op = "undistort"
               /\ trace[j].op = "undistort"
               /\ trace[i].src[1] = trace[j].src[1])
              => StrLess(trace[i].src[2], trace[j].src[2])

\* C10: whenever the catch-all handler runs images_list is not empty and
\* ends with the file whose processing raised, and the handler does not
\* raise itself.
C10_HandlerNamesFailingFile ==
    /\ pc = "handler" =>
          /\ images_list # <<>>
          /\ Last(images_list) = raisedAt.path
    /\ pc # "crashed"

====
